---- MODULE Spec2Model ----
(***************************************************************************)
(* Model of package autocertdns (src/autocertdns.go): the Manager, its     *)
(* renew sequence under the sync.RWMutex rw, the on-disk key cache, the    *)
(* Run background goroutine with afterRenew, and GetCertificate; and of    *)
(* the two provisioners, godop (src/godop/godop.go) and gcdnsp with its     *)
(* propagation check over the nameservers.                                 *)
(*                                                                         *)
(* Time is counted in days.  External collaborators (the ACME client and   *)
(* the Provisioner) are modelled by the outcomes their calls can return.   *)
(***************************************************************************)
EXTENDS Integers, Sequences, FiniteSets, TLC

VARIABLES
    m,        \* the Manager struct: configuration fields, cert, nextExpiry
    rw,       \* m.rw, the sync.RWMutex
    files,    \* content of the files of m.CacheDir
    nkeys,    \* number of key sets generated so far (names fresh keys)
    pc,       \* position of every goroutine
    loc,      \* local variables of each running renew
    ctxDone,  \* whether the context passed to renew and Run is cancelled
    now,      \* time.Now(), in days
    acme,     \* the authority: the account keys registered, the certificate issued last
    got,      \* what each GetCertificate call returned
    run,      \* what Run returned, and the background goroutine's timer
    logged,   \* the last message each goroutine handed to m.Logf or m.Errorf
    c,        \* the provisioner Client: its package, domain and nameservers
    backend,  \* the records of the DNS backend, in the order it lists them
    txt,      \* the TXT strings each nameserver answers for the challenge name
    pv,       \* the gcdnsp Provision call in progress and its timeout
    task,     \* the polling goroutine of each nameserver
    ret,      \* the provisioner call that returned last, and what it returned
    ncalls,   \* number of provisioner calls made
    cached,   \* the cachedCert call that returned last, and what it returned
    flags     \* autogcdns: *flagDomain, the managed zones of *flagProject, and
              \* what the last loadZone call returned

managerVars == <<m, rw, files, nkeys, pc, loc, now, acme, got, run, logged,
                 cached, flags>>
provisionerVars == <<c, backend, txt, pv, task, ret, ncalls>>
vars == <<m, rw, files, nkeys, pc, loc, ctxDone, now, acme, got, run, logged,
          c, backend, txt, pv, task, ret, ncalls, cached, flags>>

-----------------------------------------------------------------------------
(* Bounds *)

\* the clock stops advancing at MaxNow days
MaxNow == 1

\* the provisioner is called at most MaxCalls times
MaxCalls == 2

\* a project lists at most MaxZones managed zones
MaxZones == 3

-----------------------------------------------------------------------------
(* Constants of the program *)

acmeKeyFile == "acme_account.key"
acmeChallengDomainPrefix == "_acme-challenge."
keySuffix == ".key"
certSuffix == ".crt"

\* "If zero, certificates will be renewed 5 days before expiration."
DefaultRenewBefore == 5

\* time.Time{}, the value of m.nextExpiry that no code assigns: day 1 of
\* year 1, counted in days from the model's day 0
ZeroTime == 0 - 730000

\* the largest time.Duration (2^63 - 1 ns) in whole days; Time.Sub saturates
MaxDuration == 106751

\* gcdnsp: the only record type a provisioner accepts
allowedRecordType == "TXT"

-----------------------------------------------------------------------------
(* Values *)

Nil == "nil"
None == "none"

\* m.Domain of the modelled Manager
Domain == "example.test"

\* the goroutines: two callers of renew, one TLS handshake calling
\* GetCertificate, the caller of Run and the goroutine Run starts
RenewCallers == {"r1", "r2"}
Readers == {"g1"}
Procs == RenewCallers \cup Readers \cup {"run", "bg"}

\* the files of the cache directory the Manager names
KeyFiles == {acmeKeyFile, Domain \o keySuffix}
FileNames == KeyFiles \cup {Domain \o certSuffix}

\* content of a file: absent, a PEM store holding an EC private key, a PEM
\* store holding a certificate, a PEM store holding something else, or bytes
\* that are no PEM at all
NilKey == <<"nil", 0>>
NilCert == [nil |-> TRUE]
NilChallenge == [Type |-> Nil, Token |-> Nil]
NilTok == <<"nil", Nil, NilKey>>
NoFile == [kind |-> "absent"]
KeyPEM(k) == [kind |-> "eckey", key |-> k]
OtherPEM == [kind |-> "otherpem"]
CertPEM(cert) == [kind |-> "cert", cert |-> cert]
Garbage == [kind |-> "garbage"]

\* the challenge lists an authorization can offer
Challenge(t, tok) == [Type |-> t, Token |-> tok]
ChallengeLists ==
    { <<>>,
      <<Challenge("http-01", "t0")>>,
      <<Challenge("dns-01", "t1")>>,
      <<Challenge("http-01", "t0"), Challenge("dns-01", "t1")>>,
      <<Challenge("dns-01", "t2"), Challenge("dns-01", "t1")>> }

\* lifetimes, in days, of the certificates the authority issues
CertLifetimes == {10}


-----------------------------------------------------------------------------
(* Pure helpers *)

Max0(d) == IF d < 0 THEN 0 ELSE d

\* time.Time.Sub: the difference as a Duration, saturated at its extremes
Sub(t, u) ==
    LET d == t - u
    IN  IF d > MaxDuration THEN MaxDuration
        ELSE IF d < 0 - MaxDuration THEN 0 - MaxDuration
        ELSE d

\* nothing was handed to a callback
NoReport == [sink |-> None, msg |-> Nil]

\* Manager.log on behalf of goroutine p: hands s to m.Logf when one is set
log(lg, p, s) ==
    IF m.Logf # Nil THEN [lg EXCEPT ![p] = [sink |-> "Logf", msg |-> s]] ELSE lg

\* Manager.errf on behalf of goroutine p: reports to m.Errorf, or to m.Logf
\* (prefixed) when there is no m.Errorf
errf(lg, p, s) ==
    IF m.Errorf = Nil
    THEN log(lg, p, "ERROR: " \o s)
    ELSE [lg EXCEPT ![p] = [sink |-> "Errorf", msg |-> s]]

\* the renewal window of the RenewBefore field: "If zero, certificates will be
\* renewed 5 days before expiration."
RenewalWindow(mm) ==
    IF mm.RenewBefore = 0 THEN DefaultRenewBefore ELSE mm.RenewBefore

\* Manager.loadOrRenew: the body is `return nil`
loadOrRenew == Nil

\* ConfigError without its last check: a renew that forgets to look at
\* m.Provisioner
ConfigErrorNoProvisionerCheck(mm) ==
    IF mm.Email = "" THEN "must provide Email"
    ELSE IF mm.Prompt = Nil THEN "must provide Prompt"
    ELSE Nil

\* the three configuration checks that open renew; Nil when all pass
ConfigError(mm) ==
    IF mm.Email = "" THEN "must provide Email"
    ELSE IF mm.Prompt = Nil THEN "must provide Prompt"
    ELSE IF mm.Provisioner = Nil THEN "must provide Provisioner"
    ELSE Nil

\* cachedKey of a Manager that generates a key at every call
cachedKeyAlwaysGenerates(fs, n, filename, io) ==
    IF io = "ok"
    THEN [key |-> <<"generated", n + 1>>, err |-> Nil,
          files |-> [fs EXCEPT ![filename] = KeyPEM(<<"generated", n + 1>>)],
          nkeys |-> n + 1]
    ELSE [key |-> NilKey,
          err |-> IF io = "mkdir" THEN "could not create cache directory"
                                  ELSE "could not save PEM",
          files |-> fs, nkeys |-> n]

\* Manager.cachedKey(filename) on the cache content fs; io is how the
\* directory creation and the file write end when a key has to be generated.
\* Gives the key or the error, and the cache content afterwards.
cachedKey(fs, n, filename, io) ==
    LET store == fs[filename]
    IN  IF store.kind = "absent"
        THEN IF io = "ok"
             THEN [key |-> <<"generated", n + 1>>, err |-> Nil,
                   files |-> [fs EXCEPT ![filename] = KeyPEM(<<"generated", n + 1>>)],
                   nkeys |-> n + 1]
             ELSE [key |-> NilKey,
                   err |-> IF io = "mkdir" THEN "could not create cache directory"
                                           ELSE "could not save PEM",
                   files |-> fs, nkeys |-> n]
        ELSE IF store.kind = "garbage"
        THEN [key |-> NilKey, err |-> "unexpected error", files |-> fs, nkeys |-> n]
        ELSE IF store.kind # "eckey"
        THEN [key |-> NilKey, err |-> "does not contain ec private key",
              files |-> fs, nkeys |-> n]
        ELSE [key |-> store.key, err |-> Nil, files |-> fs, nkeys |-> n]

IOOutcomes == {"ok", "mkdir", "write"}

\* Manager.cachedCert(domain) on the cache content fs: the signer, the
\* expiry and the error it returns. pemutil.LoadFile gives a nil store for a
\* file that does not exist, and that error is let through to the look-up of
\* the certificate in the store.
cachedCert(fs, domain) ==
    LET store == fs[domain \o certSuffix]
    IN  IF store.kind = "garbage"
        THEN [signer |-> Nil, expiry |-> ZeroTime, err |-> "pemutil.LoadFile"]
        ELSE IF store.kind # "cert"
        THEN [signer |-> Nil, expiry |-> ZeroTime,
              err |-> domain \o certSuffix \o " does not contain a certificate"]
        ELSE [signer |-> Nil, expiry |-> ZeroTime, err |-> Nil]

\* a managed zone of the project: its name and its DNS name
ManagedZone(name, dnsName) == [Name |-> name, DnsName |-> dnsName]

\* no loadZone call has been made: autogcdns is not running
NoFlags == [Domain |-> "", ManagedZones |-> <<>>, called |-> FALSE,
            listErr |-> FALSE, Zone |-> "", err |-> Nil]

\* no cachedCert call has returned
NoCached == [called |-> FALSE, store |-> NoFile, signer |-> Nil,
             expiry |-> ZeroTime, err |-> Nil]

\* FirstDNS01 of a renew that takes the first challenge offered, whatever
\* its type
FirstOffered(cs) ==
    IF cs = <<>> THEN NilChallenge ELSE Head(cs)

\* the first challenge of type dns-01 in the offered list, or Nil
RECURSIVE FirstDNS01(_)
FirstDNS01(cs) ==
    IF cs = <<>> THEN NilChallenge
    ELSE IF Head(cs).Type = "dns-01" THEN Head(cs)
    ELSE FirstDNS01(Tail(cs))

\* acme.Client.DNS01ChallengeRecord: the TXT value derived from the
\* challenge token and the account key
DNS01ChallengeRecord(token, key) == <<"dns01", token, key>>

\* whether renew goes on after Register returned err: no error, or an
\* *acme.Error whose status is 409 Conflict
NoError == [nil |-> TRUE, acme |-> FALSE, StatusCode |-> 0]
AcmeError(code) == [nil |-> FALSE, acme |-> TRUE, StatusCode |-> code]
NetError == [nil |-> FALSE, acme |-> FALSE, StatusCode |-> 0]
StatusConflict == 409

\* RegisterProceeds of a renew that takes every error of Register as fatal
RegisterProceedsOnlyNil(err) == err.nil

RegisterProceeds(err) ==
    err.nil \/ (err.acme /\ err.StatusCode = StatusConflict)

\* DeferUnprovision naming the domain without the challenge prefix
DeferUnprovisionNoPrefix(typ, name, tok) ==
    [op |-> "Unprovision", args |-> <<typ, Domain, tok>>]

\* the call the deferred statement of renew records when Provision succeeded
DeferUnprovision(typ, name, tok) ==
    [op |-> "Unprovision", args |-> <<typ, name, tok>>]

\* sync.RWMutex: a writer that holds or has asked for the lock keeps new
\* readers and other writers out
\* CanRLock of a read lock that a writer does not keep out
CanRLockShared == TRUE

CanRLock == rw.writer = None /\ rw.pending = None

\* CanLock of a lock that lets a second writer in
CanLockShared == TRUE

CanLock == rw.writer = None /\ rw.pending = None


-----------------------------------------------------------------------------
(* Initial state *)

\* the local variables of a renew that has not started; registerErr is the
\* err that Register returned, authz the challenges of the authorization,
\* status the authz.Status that WaitAuthorization returned, files0 and m0
\* the cache and the Manager as they were when renew took the lock
InitLoc ==
    [key |-> NilKey, challenge |-> NilChallenge, tok |-> NilTok,
     certKey |-> NilKey, der |-> NilCert, err |-> Nil,
     registerErr |-> NoError, authz |-> <<>>, status |-> Nil,
     defers |-> <<>>, calls |-> <<>>, files0 |-> <<>>, m0 |-> <<>>]

Init ==
    /\ m \in [Email : {"", "admin@example.test"},
              Prompt : {Nil, "AcceptTOS"},
              Provisioner : {Nil, "provisioner"},
              Logf : {Nil, "func"},
              Errorf : {Nil, "func"},
              RenewBefore : {0, 3},
              cert : {NilCert},
              nextExpiry : {ZeroTime}]
    /\ rw = [writer |-> None, pending |-> None, readers |-> {}]
    /\ files \in { [f \in FileNames |->
                       IF f = acmeKeyFile THEN a
                       ELSE IF f = Domain \o keySuffix THEN d
                       ELSE NoFile] :
                   a \in {NoFile, Garbage},
                   d \in {NoFile, OtherPEM} }
    /\ nkeys = 0
    /\ pc = [p \in Procs |-> IF p = "bg" THEN "off" ELSE "idle"]
    /\ loc = [r \in RenewCallers |-> InitLoc]
    /\ ctxDone = FALSE
    /\ now = 0
    /\ acme = [accounts |-> {}, issued |-> NilCert]
    /\ got = [g \in Readers |-> [called |-> FALSE, cert |-> NilCert, err |-> Nil]]
    /\ run = [returned |-> FALSE, err |-> Nil, exp |-> ZeroTime,
              armed |-> FALSE, delay |-> 0, deadline |-> 0]
    /\ logged = [p \in RenewCallers \cup {"bg"} |-> NoReport]
    /\ cached = NoCached
    /\ flags = NoFlags
    /\ c = [pkg |-> None, domain |-> "", nameservers |-> {}]
    /\ backend = <<>>
    /\ txt = [ns \in {} |-> <<>>]
    /\ pv = [pc |-> "idle", args |-> <<>>, n |-> "", before |-> <<>>,
             timedOut |-> FALSE]
    /\ task = [ns \in {} |-> 0]
    /\ ret = [op |-> None, args |-> <<>>, err |-> Nil, n |-> "",
              before |-> <<>>, api |-> <<>>, errf |-> Nil,
              tasks |-> [ns \in {} |-> 0]]
    /\ ncalls = 0


-----------------------------------------------------------------------------
(* renew *)

\* outcomes of a call bound to ctxt: once ctxt is cancelled the call fails
Outcomes(S, failure) == IF ctxDone THEN {failure} ELSE S

\* `return m.errf(s)`: the error is reported and the deferred calls run next
Fail(r, lc, s) ==
    /\ loc' = [loc EXCEPT ![r] = [lc EXCEPT !.err = s]]
    /\ logged' = errf(logged, r, s)
    /\ pc' = [pc EXCEPT ![r] = "deferred"]

\* a call of an external collaborator, appended to the calls of this renew;
\* ok tells whether the call returned no error
Called(lc, op, args, ok) ==
    [lc EXCEPT !.calls = Append(@, [op |-> op, args |-> args, ok |-> ok])]

\* a goroutine calls renew
RenewCall(r) ==
    /\ pc[r] = "idle"
    /\ pc' = [pc EXCEPT ![r] = "Lock"]
    /\ UNCHANGED <<m, rw, files, nkeys, loc, ctxDone, now, acme, got, run, logged>>

\* m.rw.Lock(): taken at once when no reader holds the lock, else asked for
RenewLock(r) ==
    /\ pc[r] = "Lock"
    /\ CanLock
    /\ IF rw.readers = {}
       THEN /\ rw' = [rw EXCEPT !.writer = r]
            /\ pc' = [pc EXCEPT ![r] = "validate"]
            /\ loc' = [loc EXCEPT ![r].files0 = files, ![r].m0 = m]
       ELSE /\ rw' = [rw EXCEPT !.pending = r]
            /\ pc' = [pc EXCEPT ![r] = "LockWait"]
            /\ loc' = loc
    /\ UNCHANGED <<m, files, nkeys, ctxDone, now, acme, got, run, logged>>

\* m.rw.Lock() returns once the readers that held the lock have left
RenewLockWait(r) ==
    /\ pc[r] = "LockWait"
    /\ rw.pending = r
    /\ rw.readers = {}
    /\ rw' = [rw EXCEPT !.writer = r, !.pending = None]
    /\ pc' = [pc EXCEPT ![r] = "validate"]
    /\ loc' = [loc EXCEPT ![r].files0 = files, ![r].m0 = m]
    /\ UNCHANGED <<m, files, nkeys, ctxDone, now, acme, got, run, logged>>

\* the checks of Email, Prompt and Provisioner
RenewValidate(r) ==
    /\ pc[r] = "validate"
    /\ IF ConfigError(m) # Nil
       THEN Fail(r, loc[r], ConfigError(m))
       ELSE /\ pc' = [pc EXCEPT ![r] = "cachedKey"]
            /\ UNCHANGED <<loc, logged>>
    /\ UNCHANGED <<m, rw, files, nkeys, ctxDone, now, acme, got, run>>

\* key, err := m.cachedKey(acmeKeyFile)
RenewAccountKey(r) ==
    /\ pc[r] = "cachedKey"
    /\ \E io \in IOOutcomes :
         LET res == cachedKey(files, nkeys, acmeKeyFile, io)
         IN  /\ files' = res.files
             /\ nkeys' = res.nkeys
             /\ IF res.err # Nil
                THEN Fail(r, loc[r], "could not load acme_account.key")
                ELSE /\ loc' = [loc EXCEPT ![r].key = res.key]
                     /\ pc' = [pc EXCEPT ![r] = "Register"]
                     /\ logged' = logged
    /\ UNCHANGED <<m, rw, ctxDone, now, acme, got, run>>


\* client.Register: the authority answers 409 Conflict for a key it knows
RenewRegister(r) ==
    /\ pc[r] = "Register"
    /\ \E err \in Outcomes(IF loc[r].key \in acme.accounts
                           THEN {AcmeError(StatusConflict), NetError}
                           ELSE {NoError, AcmeError(400), NetError},
                           NetError) :
         LET lc == [Called(loc[r], "Register", <<loc[r].key>>, err.nil)
                       EXCEPT !.registerErr = err]
         IN  /\ acme' = IF err.nil
                        THEN [acme EXCEPT !.accounts = @ \cup {loc[r].key}]
                        ELSE acme
             /\ IF RegisterProceeds(err)
                THEN /\ loc' = [loc EXCEPT ![r] = lc]
                     /\ pc' = [pc EXCEPT ![r] = "Authorize"]
                     /\ logged' = logged
                ELSE Fail(r, lc, "could not register with ACME server")
    /\ UNCHANGED <<m, rw, files, nkeys, ctxDone, now, got, run>>

\* client.Authorize, the choice of the dns-01 challenge and the derivation of
\* its TXT value
RenewAuthorize(r) ==
    /\ pc[r] = "Authorize"
    /\ \E res \in Outcomes({[err |-> TRUE, Challenges |-> <<>>]}
                           \cup {[err |-> FALSE, Challenges |-> cs] : cs \in ChallengeLists},
                           [err |-> TRUE, Challenges |-> <<>>]) :
         LET lc == [Called(loc[r], "Authorize", <<Domain>>, ~res.err)
                       EXCEPT !.authz = res.Challenges]
             challenge == FirstDNS01(res.Challenges)
         IN  IF res.err
             THEN Fail(r, lc, "could not authorize with ACME server")
             ELSE IF challenge = NilChallenge
             THEN Fail(r, lc, "no dns-01 challenge found in challenges provided by the ACME server")
             ELSE /\ loc' = [loc EXCEPT ![r] =
                                [lc EXCEPT !.challenge = challenge,
                                           !.tok = DNS01ChallengeRecord(challenge.Token, lc.key)]]
                  /\ pc' = [pc EXCEPT ![r] = "Provision"]
                  /\ logged' = logged
    /\ UNCHANGED <<m, rw, files, nkeys, ctxDone, now, acme, got, run>>

\* RenewProvision of a renew that does not look at the error of Provision
RenewProvisionUnchecked(r) ==
    /\ pc[r] = "Provision"
    /\ \E ok \in Outcomes(BOOLEAN, FALSE) :
         LET name == acmeChallengDomainPrefix \o Domain
             lc == Called(loc[r], "Provision", <<"TXT", name, loc[r].tok>>, ok)
         IN  /\ loc' = [loc EXCEPT ![r] =
                           [lc EXCEPT !.defers =
                               <<DeferUnprovision("TXT", name, lc.tok)>> \o @]]
             /\ pc' = [pc EXCEPT ![r] = "Accept"]
             /\ logged' = logged
    /\ UNCHANGED <<m, rw, files, nkeys, ctxDone, now, acme, got, run>>

\* m.Provisioner.Provision and, when it succeeded, the defer of Unprovision
RenewProvision(r) ==
    /\ pc[r] = "Provision"
    /\ \E ok \in Outcomes(BOOLEAN, FALSE) :
         LET name == acmeChallengDomainPrefix \o Domain
             lc == Called(loc[r], "Provision", <<"TXT", name, loc[r].tok>>, ok)
         IN  IF ~ok
             THEN Fail(r, lc, "could not provision dns-01 TXT challenge")
             ELSE /\ loc' = [loc EXCEPT ![r] =
                                [lc EXCEPT !.defers =
                                    <<DeferUnprovision("TXT", name, lc.tok)>> \o @]]
                  /\ pc' = [pc EXCEPT ![r] = "Accept"]
                  /\ logged' = logged
    /\ UNCHANGED <<m, rw, files, nkeys, ctxDone, now, acme, got, run>>

\* client.Accept
RenewAccept(r) ==
    /\ pc[r] = "Accept"
    /\ \E ok \in Outcomes(BOOLEAN, FALSE) :
         LET lc == Called(loc[r], "Accept", <<loc[r].challenge>>, ok)
         IN  IF ~ok
             THEN Fail(r, lc, "could not accept ACME challenge")
             ELSE /\ loc' = [loc EXCEPT ![r] = lc]
                  /\ pc' = [pc EXCEPT ![r] = "WaitAuthorization"]
                  /\ logged' = logged
    /\ UNCHANGED <<m, rw, files, nkeys, ctxDone, now, acme, got, run>>

\* RenewWaitAuthorization of a renew that does not look at authz.Status
RenewWaitAuthorizationAnyStatus(r) ==
    /\ pc[r] = "WaitAuthorization"
    /\ \E status \in Outcomes({"error", "valid", "invalid"}, "error") :
         LET lc == [Called(loc[r], "WaitAuthorization", <<Domain>>, status # "error")
                       EXCEPT !.status = IF status = "error" THEN Nil ELSE status]
         IN  IF status = "error"
             THEN Fail(r, lc, "unable to wait for authorization from ACME server")
             ELSE /\ loc' = [loc EXCEPT ![r] = lc]
                  /\ pc' = [pc EXCEPT ![r] = "domainKey"]
                  /\ logged' = logged
    /\ UNCHANGED <<m, rw, files, nkeys, ctxDone, now, acme, got, run>>

\* client.WaitAuthorization and the check of the status it returns
RenewWaitAuthorization(r) ==
    /\ pc[r] = "WaitAuthorization"
    /\ \E status \in Outcomes({"error", "valid", "invalid"}, "error") :
         LET lc == [Called(loc[r], "WaitAuthorization", <<Domain>>, status # "error")
                       EXCEPT !.status = IF status = "error" THEN Nil ELSE status]
         IN  IF status = "error"
             THEN Fail(r, lc, "unable to wait for authorization from ACME server")
             ELSE IF status # "valid"
             THEN Fail(r, lc, "dns-01 challenge is invalid")
             ELSE /\ loc' = [loc EXCEPT ![r] = lc]
                  /\ pc' = [pc EXCEPT ![r] = "domainKey"]
                  /\ logged' = logged
    /\ UNCHANGED <<m, rw, files, nkeys, ctxDone, now, acme, got, run>>

\* RenewDomainKey of a renew that signs its request with the account key
RenewDomainKeyAccountKey(r) ==
    /\ pc[r] = "domainKey"
    /\ \E io \in IOOutcomes, csrOk \in BOOLEAN :
         LET res == cachedKey(files, nkeys, acmeKeyFile, io)
         IN  /\ files' = res.files
             /\ nkeys' = res.nkeys
             /\ IF res.err # Nil
                THEN Fail(r, loc[r], "could not load domain key")
                ELSE IF ~csrOk
                THEN Fail(r, [loc[r] EXCEPT !.certKey = res.key],
                          "could not create certificate signing request")
                ELSE /\ loc' = [loc EXCEPT ![r].certKey = res.key]
                     /\ pc' = [pc EXCEPT ![r] = "CreateCert"]
                     /\ logged' = logged
    /\ UNCHANGED <<m, rw, ctxDone, now, acme, got, run>>

\* certKey, err := m.cachedKey(m.Domain + keySuffix), then the signing request
RenewDomainKey(r) ==
    /\ pc[r] = "domainKey"
    /\ \E io \in IOOutcomes, csrOk \in BOOLEAN :
         LET res == cachedKey(files, nkeys, Domain \o keySuffix, io)
         IN  /\ files' = res.files
             /\ nkeys' = res.nkeys
             /\ IF res.err # Nil
                THEN Fail(r, loc[r], "could not load domain key")
                ELSE IF ~csrOk
                THEN Fail(r, [loc[r] EXCEPT !.certKey = res.key],
                          "could not create certificate signing request")
                ELSE /\ loc' = [loc EXCEPT ![r].certKey = res.key]
                     /\ pc' = [pc EXCEPT ![r] = "CreateCert"]
                     /\ logged' = logged
    /\ UNCHANGED <<m, rw, ctxDone, now, acme, got, run>>


\* the certificate the authority issues at time t for a signing request
\* made with key
Certificate(key, t, life) ==
    [CommonName |-> Domain, key |-> key, notAfter |-> t + life]

\* RenewCreateCert of a renew that moves the next-renewal deadline when
\* CreateCert fails
RenewCreateCertMovesDeadline(r) ==
    /\ pc[r] = "CreateCert"
    /\ \E ok \in Outcomes(BOOLEAN, FALSE), life \in CertLifetimes :
         LET lc == Called(loc[r], "CreateCert", <<Domain, loc[r].certKey>>, ok)
             der == Certificate(loc[r].certKey, now, life)
         IN  IF ~ok
             THEN /\ Fail(r, lc, "could not create certificate")
                  /\ acme' = acme
                  /\ m' = [m EXCEPT !.nextExpiry = now]
             ELSE /\ acme' = [acme EXCEPT !.issued = der]
                  /\ loc' = [loc EXCEPT ![r] = [lc EXCEPT !.der = der]]
                  /\ logged' = log(logged, r, "created certificate")
                  /\ pc' = [pc EXCEPT ![r] = "deferred"]
                  /\ m' = m
    /\ UNCHANGED <<rw, files, nkeys, ctxDone, now, got, run>>

\* client.CreateCert and the rest of renew: the log line, `der = der`, and
\* `return nil`
RenewCreateCert(r) ==
    /\ pc[r] = "CreateCert"
    /\ \E ok \in Outcomes(BOOLEAN, FALSE), life \in CertLifetimes :
         LET lc == Called(loc[r], "CreateCert", <<Domain, loc[r].certKey>>, ok)
             der == Certificate(loc[r].certKey, now, life)
         IN  IF ~ok
             THEN /\ Fail(r, lc, "could not create certificate")
                  /\ acme' = acme
             ELSE /\ acme' = [acme EXCEPT !.issued = der]
                  /\ loc' = [loc EXCEPT ![r] = [lc EXCEPT !.der = der]]
                  /\ logged' = log(logged, r, "created certificate")
                  /\ pc' = [pc EXCEPT ![r] = "deferred"]
    /\ UNCHANGED <<m, rw, files, nkeys, ctxDone, now, got, run>>

\* the deferred m.Provisioner.Unprovision runs; what it returns is dropped
RenewUnprovision(r) ==
    /\ pc[r] = "deferred"
    /\ loc[r].defers # <<>>
    /\ \E ok \in Outcomes(BOOLEAN, FALSE) :
         LET d == Head(loc[r].defers)
         IN  loc' = [loc EXCEPT ![r] =
                        [Called(loc[r], d.op, d.args, ok) EXCEPT !.defers = Tail(@)]]
    /\ UNCHANGED <<m, rw, files, nkeys, pc, ctxDone, now, acme, got, run, logged>>

\* Returning of a renew that unlocks before its other deferred calls
ReturningBeforeCleanup(r) == pc[r] = "deferred"

\* the deferred calls have run: renew is about to return loc[r].err, and
\* only the deferred m.rw.Unlock() is left
Returning(r) == pc[r] = "deferred" /\ loc[r].defers = <<>>

\* RenewUnlock of a renew that unlocks only before `return nil`
RenewUnlockOnlyOnSuccess(r) ==
    /\ Returning(r)
    /\ rw' = IF loc[r].err = Nil THEN [rw EXCEPT !.writer = None] ELSE rw
    /\ pc' = [pc EXCEPT ![r] = "idle"]
    /\ loc' = [loc EXCEPT ![r] = InitLoc]
    /\ logged' = [logged EXCEPT ![r] = NoReport]
    /\ UNCHANGED <<m, files, nkeys, ctxDone, now, acme, got, run>>

\* the deferred m.rw.Unlock() runs last and renew returns loc[r].err; its
\* local variables are gone
RenewUnlock(r) ==
    /\ Returning(r)
    /\ rw' = [rw EXCEPT !.writer = None]
    /\ pc' = [pc EXCEPT ![r] = "idle"]
    /\ loc' = [loc EXCEPT ![r] = InitLoc]
    /\ logged' = [logged EXCEPT ![r] = NoReport]
    /\ UNCHANGED <<m, files, nkeys, ctxDone, now, acme, got, run>>

-----------------------------------------------------------------------------
(* GetCertificate *)

\* a TLS handshake calls GetCertificate
GetCertificateCall(g) ==
    /\ pc[g] = "idle"
    /\ pc' = [pc EXCEPT ![g] = "RLock"]
    /\ UNCHANGED <<m, rw, files, nkeys, loc, ctxDone, now, acme, got, run, logged>>

\* m.rw.RLock() in GetCertificate returns
GetCertificateRLock(g) ==
    /\ pc[g] = "RLock"
    /\ CanRLock
    /\ rw' = [rw EXCEPT !.readers = @ \cup {g}]
    /\ pc' = [pc EXCEPT ![g] = "RLocked"]
    /\ UNCHANGED <<m, files, nkeys, loc, ctxDone, now, acme, got, run, logged>>

\* `return m.cert, nil` and the deferred m.rw.RUnlock()
GetCertificateReturn(g) ==
    /\ pc[g] = "RLocked"
    /\ got' = [got EXCEPT ![g] = [called |-> TRUE, cert |-> m.cert, err |-> Nil]]
    /\ rw' = [rw EXCEPT !.readers = @ \ {g}]
    /\ pc' = [pc EXCEPT ![g] = "idle"]
    /\ UNCHANGED <<m, files, nkeys, loc, ctxDone, now, acme, run, logged>>

-----------------------------------------------------------------------------
(* Run and the goroutine it starts *)

\* Run: the first loadOrRenew, then `go func` and `return nil`
Run ==
    /\ pc["run"] = "idle"
    /\ LET err == loadOrRenew
       IN  IF err # Nil
           THEN /\ run' = [run EXCEPT !.returned = TRUE, !.err = err]
                /\ pc' = [pc EXCEPT !["run"] = "returned"]
           ELSE /\ run' = [run EXCEPT !.returned = TRUE, !.err = Nil]
                /\ pc' = [pc EXCEPT !["run"] = "returned", !["bg"] = "loop"]
    /\ UNCHANGED <<m, rw, files, nkeys, loc, ctxDone, now, acme, got, logged>>

\* afterRenew: m.rw.RLock() and exp := m.nextExpiry
AfterRenewRLock ==
    /\ pc["bg"] = "loop"
    /\ CanRLock
    /\ rw' = [rw EXCEPT !.readers = @ \cup {"bg"}]
    /\ run' = [run EXCEPT !.exp = m.nextExpiry, !.armed = FALSE]
    /\ pc' = [pc EXCEPT !["bg"] = "afterRenew"]
    /\ UNCHANGED <<m, files, nkeys, loc, ctxDone, now, acme, got, logged>>

\* afterRenew: m.rw.RUnlock() and time.After(exp.Sub(time.Now())); a timer
\* of a negative duration fires at once
AfterRenewArm ==
    /\ pc["bg"] = "afterRenew"
    /\ rw' = [rw EXCEPT !.readers = @ \ {"bg"}]
    /\ run' = [run EXCEPT !.armed = TRUE,
                          !.delay = Max0(Sub(run.exp, now)),
                          !.deadline = now + Max0(Sub(run.exp, now))]
    /\ pc' = [pc EXCEPT !["bg"] = "select"]
    /\ UNCHANGED <<m, files, nkeys, loc, ctxDone, now, acme, got, logged>>

\* case <-m.afterRenew(): the timer has fired and loadOrRenew runs
BgRenew ==
    /\ pc["bg"] = "select"
    /\ now >= run.deadline
    /\ LET err == loadOrRenew
       IN  IF err # Nil
           THEN /\ logged' = errf(logged, "bg", "cannot renew")
                /\ pc' = [pc EXCEPT !["bg"] = "failed"]
           ELSE /\ logged' = logged
                /\ pc' = [pc EXCEPT !["bg"] = "loop"]
    /\ UNCHANGED <<m, rw, files, nkeys, loc, ctxDone, now, acme, got, run>>

\* case <-ctxt.Done(): the goroutine logs and returns
BgContextDone ==
    /\ pc["bg"] = "select"
    /\ ctxDone
    /\ logged' = log(logged, "bg", "context done")
    /\ pc' = [pc EXCEPT !["bg"] = "stopped"]
    /\ UNCHANGED <<m, rw, files, nkeys, loc, ctxDone, now, acme, got, run>>

-----------------------------------------------------------------------------
(* Environment *)

\* the owner of ctxt cancels it
Cancel ==
    /\ ~ctxDone
    /\ ctxDone' = TRUE
    /\ UNCHANGED <<m, rw, files, nkeys, pc, loc, now, acme, got, run, logged>>

\* a day passes
Tick ==
    /\ now < MaxNow
    /\ now' = now + 1
    /\ UNCHANGED <<m, rw, files, nkeys, pc, loc, ctxDone, acme, got, run, logged>>

-----------------------------------------------------------------------------
(* The provisioners: strings and the checks of the arguments *)

\* strings.HasSuffix
HasSuffix(s, suffix) ==
    /\ Len(s) >= Len(suffix)
    /\ SubSeq(s, Len(s) - Len(suffix) + 1, Len(s)) = suffix

\* strings.TrimSuffix
TrimSuffix(s, suffix) ==
    IF HasSuffix(s, suffix) THEN SubSeq(s, 1, Len(s) - Len(suffix)) ELSE s

\* strings.TrimFunc(s, func(r rune) bool { return r == '"' }): s without
\* its leading and trailing quote characters
RECURSIVE TrimLeftQuotes(_)
TrimLeftQuotes(s) ==
    IF Len(s) > 0 /\ SubSeq(s, 1, 1) = "\""
    THEN TrimLeftQuotes(SubSeq(s, 2, Len(s)))
    ELSE s

RECURSIVE TrimRightQuotes(_)
TrimRightQuotes(s) ==
    IF Len(s) > 0 /\ SubSeq(s, Len(s), Len(s)) = "\""
    THEN TrimRightQuotes(SubSeq(s, 1, Len(s) - 1))
    ELSE s

TrimQuotes(s) == TrimRightQuotes(TrimLeftQuotes(s))

\* gcdnsp contains: whether needle is one of the strings of haystack, quotes
\* around them apart
contains(haystack, needle) ==
    \E i \in DOMAIN haystack : needle = TrimQuotes(haystack[i])

\* godopCheck without the check that the name left of the domain is not empty
godopCheckEmptyName(domain, typ, name) ==
    IF typ # "TXT"
    THEN [err |-> "only TXT records are supported", name |-> ""]
    ELSE IF ~HasSuffix(name, "." \o domain)
    THEN [err |-> "invalid domain", name |-> ""]
    ELSE [err |-> Nil, name |-> SubSeq(name, 1, Len(name) - Len(domain) - 1)]

\* godop: the checks that open Provision and Unprovision, and the record name
\* name[:len(name)-len(c.domain)-1] they compute
godopCheck(domain, typ, name) ==
    IF typ # "TXT"
    THEN [err |-> "only TXT records are supported", name |-> ""]
    ELSE IF ~HasSuffix(name, "." \o domain)
    THEN [err |-> "invalid domain", name |-> ""]
    ELSE LET n == SubSeq(name, 1, Len(name) - Len(domain) - 1)
         IN  IF n = ""
             THEN [err |-> "invalid name", name |-> ""]
             ELSE [err |-> Nil, name |-> n]

\* gcdnspCheck without the check of the record type
gcdnspCheckAnyType(domain, typ, name) ==
    IF ~HasSuffix(name, "." \o domain)
    THEN [err |-> "invalid domain", n |-> "", name |-> ""]
    ELSE LET n == TrimSuffix(name, "." \o domain)
         IN  IF n = ""
             THEN [err |-> "invalid name", n |-> "", name |-> ""]
             ELSE [err |-> Nil, n |-> n, name |-> name \o "."]

\* gcdnsp: the checks that open Provision and Unprovision; n is the name left
\* of the domain, and the record is named by the whole name and a final dot
gcdnspCheck(domain, typ, name) ==
    IF typ # allowedRecordType
    THEN [err |-> "only TXT records are supported", n |-> "", name |-> ""]
    ELSE IF ~HasSuffix(name, "." \o domain)
    THEN [err |-> "invalid domain", n |-> "", name |-> ""]
    ELSE LET n == TrimSuffix(name, "." \o domain)
         IN  IF n = ""
             THEN [err |-> "invalid name", n |-> "", name |-> ""]
             ELSE [err |-> Nil, n |-> n, name |-> name \o "."]

-----------------------------------------------------------------------------
(* The provisioners: the records of the backend *)

\* a godo.DomainRecord and a dns.ResourceRecordSet
DomainRecord(id, typ, name, data) ==
    [ID |-> id, Type |-> typ, Name |-> name, Data |-> data]
ResourceRecordSet(typ, name, rrdatas) ==
    [Type |-> typ, Name |-> name, Rrdatas |-> rrdatas]

\* the ID the backend gives the next record
NextID(recs) ==
    IF recs = <<>> THEN 1
    ELSE 1 + (CHOOSE k \in {recs[i].ID : i \in DOMAIN recs} :
                 \A i \in DOMAIN recs : recs[i].ID <= k)

\* recs without the records at the positions of D
RECURSIVE Without(_, _)
Without(recs, D) ==
    IF recs = <<>> THEN <<>>
    ELSE LET rest == Without(Tail(recs), {i - 1 : i \in D \ {1}})
         IN  IF 1 \in D THEN rest ELSE <<Head(recs)>> \o rest

\* godop Unprovision: the positions of the records that pass the test of the
\* loop
godopMatches(recs, name, token) ==
    {i \in DOMAIN recs :
        ~(recs[i].Name # name \/ recs[i].Type # "TXT" \/ recs[i].Data # token)}

\* gcdnsp Unprovision: the positions of the record sets appended to deletions
gcdnspDeletions(recs, name, token) ==
    {i \in DOMAIN recs :
        ~(recs[i].Name # name \/ recs[i].Type # allowedRecordType
            \/ ~contains(recs[i].Rrdatas, token))}

\* the least element of a non-empty set of positions
First(D) == CHOOSE i \in D : \A j \in D : i <= j

-----------------------------------------------------------------------------
(* The provisioners: values *)

\* the domains a Client is made for, and the arguments of the calls
Zones == {"test", "other.test"}
FQDNs == {"_acme-challenge.example.test", "test", ".test"}
RecordTypes == {"TXT", "A"}
Tokens == {"tokA", "tokB"}

\* the nameservers of a gcdnsp Client
Nameservers == {"A", "B", "C"}

\* no Client, no call in progress, no call returned
NoClient == [pkg |-> None, domain |-> "", nameservers |-> {}]
IdlePv == [pc |-> "idle", args |-> <<>>, n |-> "", before |-> <<>>,
           timedOut |-> FALSE]
NoTasks == [ns \in {} |-> 0]
NoReturn == [op |-> None, args |-> <<>>, err |-> Nil, n |-> "",
             before |-> <<>>, api |-> <<>>, errf |-> Nil, tasks |-> NoTasks]

\* what a call that found the backend as `before` returns: its error, the
\* record name it computed, the calls it made to the backend, and what it
\* handed to c.errf
Returned(op, args, err, n, before, api, report) ==
    [op |-> op, args |-> args, err |-> err, n |-> n, before |-> before,
     api |-> api, errf |-> report, tasks |-> NoTasks]

\* the records a DigitalOcean domain can hold when the Client is made
GodoBackends ==
    { <<>>,
      <<DomainRecord(1, "TXT", "_acme-challenge.example", "tokB"),
        DomainRecord(2, "A", "_acme-challenge.example", "tokA")>>,
      <<DomainRecord(1, "TXT", "_acme-challenge.example", "tokA"),
        DomainRecord(2, "TXT", "_acme-challenge.example", "tokB"),
        DomainRecord(3, "TXT", "_acme-challenge.other", "tokA")>> }

\* the record sets a Cloud DNS managed zone can hold when the Client is made:
\* a record set holds every value of its name and type
GcdnsBackends ==
    { <<>>,
      <<ResourceRecordSet("TXT", "_acme-challenge.example.test.",
                          <<"\"tokA\"", "\"tokB\"">>)>>,
      <<ResourceRecordSet("TXT", "_acme-challenge.example.test.", <<"tokB">>),
        ResourceRecordSet("A", "_acme-challenge.example.test.", <<"tokA">>)>> }

-----------------------------------------------------------------------------
(* godop *)

\* godop Client.Provision
GodopProvision ==
    /\ c.pkg = "godop"
    /\ ncalls < MaxCalls
    /\ \E typ \in RecordTypes, name \in FQDNs, token \in Tokens,
          ok \in Outcomes(BOOLEAN, FALSE) :
         LET chk == godopCheck(c.domain, typ, name)
             args == <<typ, name, token>>
         IN  IF chk.err # Nil
             THEN /\ ret' = Returned("Provision", args, chk.err, "", backend, <<>>, Nil)
                  /\ backend' = backend
             ELSE IF ~ok
             THEN /\ ret' = Returned("Provision", args, "CreateRecord", chk.name,
                                     backend, <<"CreateRecord">>, Nil)
                  /\ backend' = backend
             ELSE /\ ret' = Returned("Provision", args, Nil, chk.name,
                                     backend, <<"CreateRecord">>, Nil)
                  /\ backend' = Append(backend,
                         DomainRecord(NextID(backend), "TXT", chk.name, token))
    /\ ncalls' = ncalls + 1
    /\ UNCHANGED <<c, txt, pv, task, ctxDone>>
    /\ UNCHANGED managerVars

\* godop Client.Unprovision
GodopUnprovision ==
    /\ c.pkg = "godop"
    /\ ncalls < MaxCalls
    /\ \E typ \in RecordTypes, name \in FQDNs, token \in Tokens,
          listed \in Outcomes(BOOLEAN, FALSE), deleted \in Outcomes(BOOLEAN, FALSE) :
         LET chk == godopCheck(c.domain, typ, name)
             args == <<typ, name, token>>
             found == godopMatches(backend, chk.name, token)
         IN  IF chk.err # Nil
             THEN /\ ret' = Returned("Unprovision", args, chk.err, "", backend, <<>>, Nil)
                  /\ backend' = backend
             ELSE IF ~listed
             THEN /\ ret' = Returned("Unprovision", args, "Records", chk.name,
                                     backend, <<"Records">>, Nil)
                  /\ backend' = backend
             ELSE IF found = {}
             THEN /\ ret' = Returned("Unprovision", args, "record not deleted",
                                     chk.name, backend, <<"Records">>, Nil)
                  /\ backend' = backend
             ELSE IF ~deleted
             THEN /\ ret' = Returned("Unprovision", args, "DeleteRecord", chk.name,
                                     backend, <<"Records", "DeleteRecord">>, Nil)
                  /\ backend' = backend
             ELSE /\ ret' = Returned("Unprovision", args, Nil, chk.name,
                                     backend, <<"Records", "DeleteRecord">>, Nil)
                  /\ backend' = Without(backend, {First(found)})
    /\ ncalls' = ncalls + 1
    /\ UNCHANGED <<c, txt, pv, task, ctxDone>>
    /\ UNCHANGED managerVars

-----------------------------------------------------------------------------
(* gcdnsp *)

\* gcdnsp Client.Unprovision; the list is bound to ctxt, the change is not
GcdnspUnprovision ==
    /\ c.pkg = "gcdnsp"
    /\ pv.pc = "idle"
    /\ ncalls < MaxCalls
    /\ \E typ \in RecordTypes, name \in FQDNs, token \in Tokens,
          listed \in Outcomes(BOOLEAN, FALSE), changed \in BOOLEAN :
         LET chk == gcdnspCheck(c.domain, typ, name)
             args == <<typ, name, token>>
             deletions == gcdnspDeletions(backend, chk.name, token)
         IN  IF chk.err # Nil
             THEN /\ ret' = Returned("Unprovision", args, chk.err, "", backend, <<>>, Nil)
                  /\ backend' = backend
             ELSE IF ~listed
             THEN /\ ret' = Returned("Unprovision", args, "List", chk.n, backend,
                                     <<"List">>, "could not retrieve records")
                  /\ backend' = backend
             ELSE IF Cardinality(deletions) < 1
             THEN /\ ret' = Returned("Unprovision", args, Nil, chk.n, backend,
                                     <<"List">>, "could not find record")
                  /\ backend' = backend
             ELSE IF ~changed
             THEN /\ ret' = Returned("Unprovision", args, "Create", chk.n, backend,
                                     <<"List", "Create">>, "unable to unprovision")
                  /\ backend' = backend
             ELSE /\ ret' = Returned("Unprovision", args, Nil, chk.n, backend,
                                     <<"List", "Create">>, Nil)
                  /\ backend' = Without(backend, deletions)
    /\ ncalls' = ncalls + 1
    /\ UNCHANGED <<c, txt, pv, task, ctxDone>>
    /\ UNCHANGED managerVars

\* gcdnsp Client.Provision up to the start of the polling goroutines: the
\* checks, the change that adds the record set (the backend refuses to add a
\* record set it already holds), context.WithTimeout and eg.Go per nameserver
GcdnspProvisionCall ==
    /\ c.pkg = "gcdnsp"
    /\ pv.pc = "idle"
    /\ ncalls < MaxCalls
    /\ \E typ \in RecordTypes, name \in FQDNs, token \in Tokens, ok \in BOOLEAN :
         LET chk == gcdnspCheck(c.domain, typ, name)
             args == <<typ, name, token>>
             held == \E i \in DOMAIN backend :
                        backend[i].Name = chk.name /\ backend[i].Type = typ
         IN  IF chk.err # Nil
             THEN /\ ret' = Returned("Provision", args, chk.err, "", backend, <<>>, Nil)
                  /\ UNCHANGED <<backend, pv, task>>
             ELSE IF ~ok \/ held
             THEN /\ ret' = Returned("Provision", args, "Create", chk.n, backend,
                                     <<"Create">>, "unable to provision")
                  /\ UNCHANGED <<backend, pv, task>>
             ELSE /\ backend' = Append(backend,
                                       ResourceRecordSet(typ, chk.name, <<token>>))
                  /\ pv' = [pc |-> "Wait", args |-> args, n |-> chk.n,
                            before |-> backend, timedOut |-> FALSE]
                  /\ task' = [ns \in c.nameservers |->
                                 [pc |-> "loop", transportErr |-> FALSE, late |-> FALSE]]
                  /\ ret' = NoReturn
    /\ ncalls' = ncalls + 1
    /\ UNCHANGED <<c, txt, ctxDone>>
    /\ UNCHANGED managerVars

\* <-ctxt.Done() of the polling goroutines: the context made by
\* errgroup.WithContext from the one of context.WithTimeout is done when the
\* caller's context is cancelled or propagationWait has passed; the
\* errgroup cancels it only after a goroutine returned an error, which a
\* goroutine does only once the context is done
CtxtDone == ctxDone \/ pv.timedOut

\* propagationWait passes
Timeout ==
    /\ pv.pc = "Wait"
    /\ ~pv.timedOut
    /\ pv' = [pv EXCEPT !.timedOut = TRUE]
    /\ UNCHANGED <<c, backend, txt, task, ret, ncalls, ctxDone>>
    /\ UNCHANGED managerVars

\* the record set reaches nameserver ns
Propagate(ns) ==
    /\ ns \in c.nameservers
    /\ pv.pc = "Wait"
    /\ ~contains(txt[ns], pv.args[3])
    /\ txt' = [txt EXCEPT ![ns] = <<pv.args[3]>>]
    /\ UNCHANGED <<c, backend, pv, task, ret, ncalls, ctxDone>>
    /\ UNCHANGED managerVars

\* TaskSelect of a goroutine that never looks at the context
TaskSelectBlind(ns) ==
    /\ ns \in c.nameservers
    /\ pv.pc = "Wait"
    /\ task[ns].pc = "loop"
    /\ task' = [task EXCEPT ![ns].pc = "exchange"]
    /\ UNCHANGED <<c, backend, txt, pv, ret, ncalls, ctxDone>>
    /\ UNCHANGED managerVars

\* the select that opens a polling round, after time.Sleep(c.checkDelay) in
\* every round but the first: the goroutine returns ctxt.Err() when the
\* context is done, and sends its query otherwise
TaskSelect(ns) ==
    /\ ns \in c.nameservers
    /\ pv.pc = "Wait"
    /\ task[ns].pc = "loop"
    /\ task' = [task EXCEPT ![ns].pc = IF CtxtDone THEN "err" ELSE "exchange"]
    /\ UNCHANGED <<c, backend, txt, pv, ret, ncalls, ctxDone>>
    /\ UNCHANGED managerVars

\* TaskExchange of a goroutine that returns the error of cl.Exchange
TaskExchangeFailFast(ns) ==
    /\ ns \in c.nameservers
    /\ pv.pc = "Wait"
    /\ task[ns].pc = "exchange"
    /\ \E answered \in BOOLEAN :
         IF ~answered
         THEN task' = [task EXCEPT ![ns].pc = "err", ![ns].transportErr = TRUE]
         ELSE IF Len(txt[ns]) > 0 /\ contains(txt[ns], pv.args[3])
         THEN task' = [task EXCEPT ![ns].pc = "nil", ![ns].late = CtxtDone]
         ELSE task' = [task EXCEPT ![ns].pc = "loop"]
    /\ UNCHANGED <<c, backend, txt, pv, ret, ncalls, ctxDone>>
    /\ UNCHANGED managerVars

\* cl.Exchange(m, ns) returns, with an error or with the answer of the
\* nameserver; the call takes no context.  The goroutine returns nil when the
\* answer holds the token, and goes to sleep for the next round otherwise
TaskExchange(ns) ==
    /\ ns \in c.nameservers
    /\ pv.pc = "Wait"
    /\ task[ns].pc = "exchange"
    /\ \E answered \in BOOLEAN :
         IF answered /\ Len(txt[ns]) > 0 /\ contains(txt[ns], pv.args[3])
         THEN task' = [task EXCEPT ![ns].pc = "nil", ![ns].late = CtxtDone]
         ELSE task' = [task EXCEPT ![ns].pc = "loop",
                                   ![ns].transportErr = @ \/ ~answered]
    /\ UNCHANGED <<c, backend, txt, pv, ret, ncalls, ctxDone>>
    /\ UNCHANGED managerVars

\* eg.Wait of an errgroup that is content with one goroutine returning nil
WaitErrorFirstSuccess(tasks) ==
    IF \E ns \in DOMAIN tasks : tasks[ns].pc = "nil" THEN Nil ELSE "ctxt.Err()"

\* eg.Wait: the first error a goroutine returned, nil when none did
WaitError(tasks) ==
    IF \E ns \in DOMAIN tasks : tasks[ns].pc = "err" THEN "ctxt.Err()" ELSE Nil

\* the rest of gcdnsp Client.Provision: eg.Wait() returns once every
\* goroutine has returned; on its error Provision returns it, otherwise it
\* sleeps c.provisionDelay and returns nil
GcdnspProvisionReturn ==
    /\ pv.pc = "Wait"
    /\ \A ns \in c.nameservers : task[ns].pc \in {"nil", "err"}
    /\ ret' = [Returned("Provision", pv.args, WaitError(task), pv.n, pv.before,
                        <<"Create">>, Nil) EXCEPT !.tasks = task]
    /\ pv' = IdlePv
    /\ task' = [ns \in c.nameservers |->
                   [pc |-> "off", transportErr |-> FALSE, late |-> FALSE]]
    /\ UNCHANGED <<c, backend, txt, ncalls, ctxDone>>
    /\ UNCHANGED managerVars

\* the caller of the provisioner cancels its context
ProvisionerCancel ==
    /\ c.pkg # None
    /\ ~ctxDone
    /\ ctxDone' = TRUE
    /\ UNCHANGED provisionerVars
    /\ UNCHANGED managerVars

-----------------------------------------------------------------------------

\* the steps of a goroutine that calls renew
Renew(r) ==
    \/ RenewCall(r)
    \/ RenewLock(r)
    \/ RenewLockWait(r)
    \/ RenewValidate(r)
    \/ RenewAccountKey(r)
    \/ RenewRegister(r)
    \/ RenewAuthorize(r)
    \/ RenewProvision(r)
    \/ RenewAccept(r)
    \/ RenewWaitAuthorization(r)
    \/ RenewDomainKey(r)
    \/ RenewCreateCert(r)
    \/ RenewUnprovision(r)
    \/ RenewUnlock(r)

\* the steps of a TLS handshake
GetCertificate(g) ==
    \/ GetCertificateCall(g)
    \/ GetCertificateRLock(g)
    \/ GetCertificateReturn(g)

\* the steps of Run and of the goroutine it starts
Background ==
    \/ Run
    \/ AfterRenewRLock
    \/ AfterRenewArm
    \/ BgRenew
    \/ BgContextDone

\* the Manager, whose provisioner is modelled by what its calls return
Next ==
    /\ \/ \E r \in RenewCallers : Renew(r)
       \/ \E g \in Readers : GetCertificate(g)
       \/ Background
       \/ Cancel
       \/ Tick
    /\ UNCHANGED provisionerVars
    /\ UNCHANGED <<cached, flags>>

Spec == Init /\ [][Next]_vars

\* the Manager as its tests use it: renew called directly, by two goroutines,
\* beside TLS handshakes
NextRenew ==
    /\ \/ \E r \in RenewCallers : Renew(r)
       \/ \E g \in Readers : GetCertificate(g)
       \/ Cancel
    /\ UNCHANGED provisionerVars
    /\ UNCHANGED <<cached, flags>>

SpecRenew == Init /\ [][NextRenew]_vars

\* the Manager as a server uses it: Run and its goroutine beside TLS
\* handshakes, and one goroutine calling renew, starting from an empty cache
InitRun == Init /\ \A f \in FileNames : files[f] = NoFile

NextRun ==
    /\ \/ Renew("r1")
       \/ \E g \in Readers : GetCertificate(g)
       \/ Background
       \/ Cancel
       \/ Tick
    /\ UNCHANGED provisionerVars
    /\ UNCHANGED <<cached, flags>>

SpecRun == InitRun /\ [][NextRun]_vars

\* a provisioner Client on its own: the Manager is not running
IdleManager ==
    /\ m = [Email |-> "admin@example.test", Prompt |-> "AcceptTOS",
            Provisioner |-> "provisioner", Logf |-> Nil, Errorf |-> Nil,
            RenewBefore |-> 0, cert |-> NilCert, nextExpiry |-> ZeroTime]
    /\ rw = [writer |-> None, pending |-> None, readers |-> {}]
    /\ files = [f \in FileNames |-> NoFile]
    /\ nkeys = 0
    /\ pc = [p \in Procs |-> IF p = "bg" THEN "off" ELSE "idle"]
    /\ loc = [r \in RenewCallers |-> InitLoc]
    /\ ctxDone = FALSE
    /\ now = 0
    /\ acme = [accounts |-> {}, issued |-> NilCert]
    /\ got = [g \in Readers |-> [called |-> FALSE, cert |-> NilCert, err |-> Nil]]
    /\ run = [returned |-> FALSE, err |-> Nil, exp |-> ZeroTime,
              armed |-> FALSE, delay |-> 0, deadline |-> 0]
    /\ logged = [p \in RenewCallers \cup {"bg"} |-> NoReport]
    /\ cached = NoCached

\* godop.New and gcdnsp.New: a Client of either package for a domain, over
\* a backend that may hold records already; the gcdnsp Client polls one
\* nameserver
InitDNS ==
    /\ IdleManager
    /\ flags = NoFlags
    /\ c \in [pkg : {"godop"}, domain : Zones, nameservers : {{}}]
            \cup [pkg : {"gcdnsp"}, domain : Zones, nameservers : {{"A"}}]
    /\ backend \in IF c.pkg = "godop" THEN GodoBackends ELSE GcdnsBackends
    /\ txt = [ns \in c.nameservers |-> <<>>]
    /\ pv = IdlePv
    /\ task = [ns \in c.nameservers |->
                  [pc |-> "off", transportErr |-> FALSE, late |-> FALSE]]
    /\ ret = NoReturn
    /\ ncalls = 0

\* the steps of a gcdnsp Client
Gcdnsp ==
    \/ GcdnspProvisionCall
    \/ \E ns \in Nameservers : TaskSelect(ns)
    \/ \E ns \in Nameservers : TaskExchange(ns)
    \/ \E ns \in Nameservers : Propagate(ns)
    \/ Timeout
    \/ GcdnspProvisionReturn
    \/ GcdnspUnprovision

NextDNS ==
    \/ GodopProvision
    \/ GodopUnprovision
    \/ Gcdnsp
    \/ ProvisionerCancel

SpecDNS == InitDNS /\ [][NextDNS]_vars

\* a gcdnsp Client for the domain test that polls three nameservers, over an
\* empty zone; nameserver C may still answer with the value of an earlier
\* challenge
InitVerify ==
    /\ IdleManager
    /\ flags = NoFlags
    /\ c = [pkg |-> "gcdnsp", domain |-> "test", nameservers |-> Nameservers]
    /\ backend = <<>>
    /\ txt \in {[ns \in Nameservers |-> IF ns = "C" THEN stale ELSE <<>>] :
                    stale \in {<<>>, <<"tokB">>}}
    /\ pv = IdlePv
    /\ task = [ns \in c.nameservers |->
                  [pc |-> "off", transportErr |-> FALSE, late |-> FALSE]]
    /\ ret = NoReturn
    /\ ncalls = 0

NextVerify ==
    \/ Gcdnsp
    \/ ProvisionerCancel

SpecVerify == InitVerify /\ [][NextVerify]_vars

\* the timer of context.WithTimeout fires, cl.Exchange returns (it has its
\* own timeout), a goroutine that can run does, and so does the caller
SpecVerifyFair ==
    /\ SpecVerify
    /\ WF_vars(Timeout)
    /\ \A ns \in Nameservers : WF_vars(TaskSelect(ns)) /\ WF_vars(TaskExchange(ns))
    /\ WF_vars(GcdnspProvisionReturn)


\* the lock of the Manager: two goroutines calling renew beside Run, its
\* goroutine and TLS handshakes, with a configuration that is valid or lacks
\* the Email
InitLock ==
    /\ InitRun
    /\ m.Prompt # Nil /\ m.Provisioner # Nil
    /\ m.Logf = Nil /\ m.Errorf = Nil /\ m.RenewBefore = 0

NextLock ==
    /\ \/ \E r \in RenewCallers : Renew(r)
       \/ \E g \in Readers : GetCertificate(g)
       \/ Background
       \/ Cancel
    /\ UNCHANGED provisionerVars
    /\ UNCHANGED <<cached, flags>>

SpecLock == InitLock /\ [][NextLock]_vars

\* a goroutine inside renew, GetCertificate or afterRenew runs on, every call
\* it waits for returns, and sync.RWMutex hands the lock to a goroutine that
\* waits for it: Unlock wakes the readers that wait, and a writer that waits
\* is not overtaken for ever
SpecLockFair ==
    /\ SpecLock
    /\ \A r \in RenewCallers :
          /\ SF_vars(RenewLock(r) /\ UNCHANGED <<provisionerVars, cached, flags>>)
          /\ WF_vars(/\ pc[r] \notin {"idle", "Lock"}
                     /\ Renew(r)
                     /\ UNCHANGED <<provisionerVars, cached, flags>>)
    /\ \A g \in Readers :
          /\ SF_vars(GetCertificateRLock(g) /\ UNCHANGED <<provisionerVars, cached, flags>>)
          /\ WF_vars(GetCertificateReturn(g) /\ UNCHANGED <<provisionerVars, cached, flags>>)
    /\ SF_vars(AfterRenewRLock /\ UNCHANGED <<provisionerVars, cached, flags>>)
    /\ WF_vars(AfterRenewArm /\ UNCHANGED <<provisionerVars, cached, flags>>)

\* autogcdns loadZone on the managed zones the list call returned for the
\* project: the loop keeps the first zone until a zone with a longer DnsName
\* comes while the DnsName of the zone kept is a suffix of the domain
RECURSIVE loadZoneLoop(_, _, _)
loadZoneLoop(domain, zone, rest) ==
    IF rest = <<>> THEN zone
    ELSE LET z == Head(rest)
         IN  IF /\ HasSuffix(domain, zone.DnsName)
                /\ Len(z.DnsName) > Len(zone.DnsName)
             THEN loadZoneLoop(domain, z, Tail(rest))
             ELSE loadZoneLoop(domain, zone, Tail(rest))

\* loadZone: the name of the managed zone and the error; listErr tells
\* whether ManagedZones.List(*flagProject).Do() failed
loadZone(domain, ManagedZones, listErr) ==
    IF listErr THEN [Zone |-> "", err |-> "ManagedZones.List"]
    ELSE IF Len(ManagedZones) = 0
    THEN [Zone |-> "", err |-> "no managed zones in project"]
    ELSE LET zone == loadZoneLoop(domain, ManagedZones[1], ManagedZones)
         IN  IF ~HasSuffix(domain, zone.DnsName)
             THEN [Zone |-> "",
                   err |-> "can not find the managed zone name in project"]
             ELSE [Zone |-> zone.Name, err |-> Nil]

\* autogcdns before it creates the provisioner: run has normalised
\* *flagDomain to end with a dot, *flagZone is empty, and the project lists
\* up to MaxZones of its managed zones, in any order
ProjectZones ==
    {ManagedZone("zone-test", "test."),
     ManagedZone("zone-example", "example.test."),
     ManagedZone("zone-other", "other."),
     ManagedZone("zone-long", "elsewhere.example.org.")}

ZoneLists ==
    {zs \in UNION {[1..n -> ProjectZones] : n \in 0..MaxZones} :
        \A i, j \in DOMAIN zs : i # j => zs[i] # zs[j]}

FlagDomains == {"example.test.", "www.example.test."}

InitZone ==
    /\ IdleManager
    /\ flags \in {[NoFlags EXCEPT !.Domain = d, !.ManagedZones = zs] :
                     d \in FlagDomains, zs \in ZoneLists}
    /\ c = [pkg |-> None, domain |-> "", nameservers |-> {}]
    /\ backend = <<>>
    /\ txt = [ns \in {} |-> <<>>]
    /\ pv = IdlePv
    /\ task = [ns \in {} |-> 0]
    /\ ret = NoReturn
    /\ ncalls = 0

\* run calls loadZone because *flagZone is empty
LoadZone ==
    /\ ~flags.called
    /\ \E listErr \in BOOLEAN :
         LET res == loadZone(flags.Domain, flags.ManagedZones, listErr)
         IN  flags' = [flags EXCEPT !.called = TRUE, !.listErr = listErr,
                                    !.Zone = res.Zone, !.err = res.err]
    /\ UNCHANGED <<m, rw, files, nkeys, pc, loc, ctxDone, now, acme, got, run,
                   logged, cached>>
    /\ UNCHANGED provisionerVars

NextZone == LoadZone

SpecZone == InitZone /\ [][NextZone]_vars

\* the cache directory on its own: the three files of the Manager with any
\* content, and a caller of cachedCert
StoredCert == Certificate(<<"stored", 1>>, 0, 10)

FileContents ==
    {NoFile, Garbage, OtherPEM, KeyPEM(<<"stored", 1>>), CertPEM(StoredCert)}

InitCache ==
    /\ m = [Email |-> "admin@example.test", Prompt |-> "AcceptTOS",
            Provisioner |-> "provisioner", Logf |-> Nil, Errorf |-> Nil,
            RenewBefore |-> 0, cert |-> NilCert, nextExpiry |-> ZeroTime]
    /\ rw = [writer |-> None, pending |-> None, readers |-> {}]
    /\ files \in [FileNames -> FileContents]
    /\ nkeys = 0
    /\ pc = [p \in Procs |-> IF p = "bg" THEN "off" ELSE "idle"]
    /\ loc = [r \in RenewCallers |-> InitLoc]
    /\ ctxDone = FALSE
    /\ now = 0
    /\ acme = [accounts |-> {}, issued |-> NilCert]
    /\ got = [g \in Readers |-> [called |-> FALSE, cert |-> NilCert, err |-> Nil]]
    /\ run = [returned |-> FALSE, err |-> Nil, exp |-> ZeroTime,
              armed |-> FALSE, delay |-> 0, deadline |-> 0]
    /\ logged = [p \in RenewCallers \cup {"bg"} |-> NoReport]
    /\ cached = NoCached
    /\ flags = NoFlags
    /\ c = [pkg |-> None, domain |-> "", nameservers |-> {}]
    /\ backend = <<>>
    /\ txt = [ns \in {} |-> <<>>]
    /\ pv = IdlePv
    /\ task = [ns \in {} |-> 0]
    /\ ret = NoReturn
    /\ ncalls = 0

\* a call of m.cachedCert(m.Domain) returns
CachedCert ==
    /\ LET res == cachedCert(files, Domain)
       IN  cached' = [called |-> TRUE, store |-> files[Domain \o certSuffix],
                      signer |-> res.signer, expiry |-> res.expiry,
                      err |-> res.err]
    /\ UNCHANGED <<m, rw, files, nkeys, pc, loc, ctxDone, now, acme, got, run,
                   logged, flags>>
    /\ UNCHANGED provisionerVars

NextCache == CachedCert

SpecCache == InitCache /\ [][NextCache]_vars

-----------------------------------------------------------------------------
(* Properties *)

\* r is inside renew, past m.rw.Lock() and before the deferred m.rw.Unlock()
InRenew(r) == pc[r] \notin {"idle", "Lock", "LockWait"}

\* r waits for the answer of the authority or of the provisioner
InNetworkCall(r) ==
    \/ pc[r] \in {"Register", "Authorize", "Provision", "Accept",
                  "WaitAuthorization", "CreateCert"}
    \/ pc[r] = "deferred" /\ loc[r].defers # <<>>

\* the positions in calls of the calls of op
CallsOf(calls, op) == {i \in DOMAIN calls : calls[i].op = op}

\* C1: in a renew that is about to return, a Provision that succeeded is
\* followed by exactly one Unprovision, made with the same (type, fqdn, token),
\* whatever error renew returns
C1_UnprovisionExactlyOnce ==
    \A r \in RenewCallers :
        Returning(r) =>
            \A i \in CallsOf(loc[r].calls, "Provision") :
                loc[r].calls[i].ok =>
                    /\ Cardinality(CallsOf(loc[r].calls, "Unprovision")) = 1
                    /\ \A j \in CallsOf(loc[r].calls, "Unprovision") :
                          /\ j > i
                          /\ loc[r].calls[j].args = loc[r].calls[i].args

\* C1 witness: a renew cancelled while it waited for the authorization, after
\* a Provision that succeeded, is about to return its error
C1_Witness ==
    \E r \in RenewCallers :
        /\ Returning(r)
        /\ ctxDone
        /\ loc[r].err = "unable to wait for authorization from ACME server"
        /\ \E i \in CallsOf(loc[r].calls, "Provision") : loc[r].calls[i].ok

\* C2: a goroutine inside renew holds the writer lock, and no other goroutine
\* is inside renew at the same time
C2_NoInterleaving ==
    \A r \in RenewCallers :
        InRenew(r) =>
            /\ rw.writer = r
            /\ \A q \in RenewCallers \ {r} : ~InRenew(q) /\ loc[q] = InitLoc

\* C2 witness: one renew waits for the authority while the other goroutine
\* has called renew and waits in m.rw.Lock()
C2_Witness ==
    \E r, q \in RenewCallers :
        r # q /\ pc[r] = "Accept" /\ pc[q] = "Lock"

\* C10: with Email empty, Prompt nil or Provisioner nil, renew makes no call
\* to the authority or the provisioner, leaves the cache as it found it, and
\* returns an error
C10_ConfigErrorTouchesNothing ==
    \A r \in RenewCallers :
        (InRenew(r) /\ (m.Email = "" \/ m.Prompt = Nil \/ m.Provisioner = Nil)) =>
            /\ loc[r].calls = <<>>
            /\ files = loc[r].files0
            /\ pc[r] \in {"validate", "deferred"}
            /\ Returning(r) => loc[r].err # Nil

\* C10 witness: only the Provisioner is missing, the cache is empty, and
\* renew is about to return its error
C10_Witness ==
    \E r \in RenewCallers :
        /\ Returning(r)
        /\ m.Email # "" /\ m.Prompt # Nil /\ m.Provisioner = Nil
        /\ \A f \in FileNames : files[f] = NoFile
        /\ loc[r].err = "must provide Provisioner"


Obtained == m.cert # NilCert \/ acme.issued # NilCert

\* C4: GetCertificate returns an error exactly when no certificate has ever
\* been obtained, and a certificate without error otherwise
C4_GetCertificateErrorIffNone ==
    [][\A g \in Readers :
          (pc[g] = "RLocked" /\ pc'[g] = "idle") =>
              /\ got'[g].err # Nil <=> ~Obtained
              /\ Obtained => got'[g].cert # NilCert /\ got'[g].err = Nil]_vars

\* C5: when Run has returned nil a certificate is live and the background
\* goroutine has been started; when it has returned an error no goroutine
\* has been started
C5_RunLoadsOrIssues ==
    run.returned =>
        IF run.err = Nil
        THEN m.cert # NilCert /\ pc["bg"] # "off"
        ELSE pc["bg"] = "off"

\* C6: a renew about to return nil has made the issued certificate live and
\* has derived m.nextExpiry from its expiry; and whenever the writer lock is
\* free, m.nextExpiry is the deadline of the live certificate
C6_RenewInstallsCertificate ==
    /\ \A r \in RenewCallers :
          (Returning(r) /\ loc[r].err = Nil) =>
              /\ m.cert = loc[r].der
              /\ m.nextExpiry \in {loc[r].der.notAfter,
                                   loc[r].der.notAfter - RenewalWindow(m)}
    /\ (rw.writer = None /\ m.cert # NilCert) =>
           m.nextExpiry \in {m.cert.notAfter, m.cert.notAfter - RenewalWindow(m)}

\* C7: a renew about to return nil leaves the account key, the domain key
\* and the certificate of the domain in the cache directory
C7_RenewPersistsThreeFiles ==
    \A r \in RenewCallers :
        (Returning(r) /\ loc[r].err = Nil) =>
            \A f \in {acmeKeyFile, Domain \o keySuffix, Domain \o certSuffix} :
                files[f] # NoFile

\* C8: when the background goroutine arms its timer and the Manager has
\* obtained a certificate, the timer runs for
\* max(0, notAfter - renewal window - now)
C8_TimerArmedForRenewalWindow ==
    [][(pc["bg"] = "afterRenew" /\ pc'["bg"] = "select" /\ acme.issued # NilCert) =>
          /\ run'.armed
          /\ run'.delay = Max0(acme.issued.notAfter - RenewalWindow(m) - now)]_vars

\* C11: a renew whose Register returned no error, or the authority's 409
\* Conflict for an account key it already knows, goes on to Authorize; after
\* any other error of Register it is about to return the registration error
\* and has not called Authorize
C11_RegisterIdempotent ==
    \A r \in RenewCallers :
        CallsOf(loc[r].calls, "Register") # {} =>
            LET err == loc[r].registerErr
            IN  IF err.nil \/ (err.acme /\ err.StatusCode = StatusConflict)
                THEN /\ loc[r].err # "could not register with ACME server"
                     /\ \/ pc[r] = "Authorize"
                        \/ CallsOf(loc[r].calls, "Authorize") # {}
                ELSE /\ pc[r] = "deferred"
                     /\ loc[r].err = "could not register with ACME server"
                     /\ CallsOf(loc[r].calls, "Authorize") = {}

\* C11 witness: a renew that loaded the account key an earlier renew had
\* registered got 409 Conflict from Register and is about to call Authorize
C11_Witness ==
    \E r \in RenewCallers :
        /\ pc[r] = "Authorize"
        /\ loc[r].key \in acme.accounts
        /\ loc[r].registerErr = AcmeError(StatusConflict)
        /\ files[acmeKeyFile] = KeyPEM(loc[r].key)

\* whether the list of challenges cs offers one of type dns-01
OffersDNS01(cs) == \E k \in DOMAIN cs : cs[k].Type = "dns-01"

\* C12: a renew whose authorization offers no dns-01 challenge is about to
\* return an error and has called neither Provision nor Accept; every
\* Provision is made with the TXT value of an offered dns-01 challenge, and
\* every Accept with an offered challenge of type dns-01
C12_OnlyDNS01 ==
    \A r \in RenewCallers :
        LET calls == loc[r].calls
            authz == loc[r].authz
        IN  /\ ((\E i \in CallsOf(calls, "Authorize") : calls[i].ok)
                    /\ ~OffersDNS01(authz)) =>
                   /\ pc[r] = "deferred"
                   /\ loc[r].err # Nil
                   /\ CallsOf(calls, "Provision") = {}
                   /\ CallsOf(calls, "Accept") = {}
            /\ \A i \in CallsOf(calls, "Provision") :
                   \E k \in DOMAIN authz :
                       /\ authz[k].Type = "dns-01"
                       /\ calls[i].args[3] =
                              DNS01ChallengeRecord(authz[k].Token, loc[r].key)
            /\ \A i \in CallsOf(calls, "Accept") :
                   /\ calls[i].args[1].Type = "dns-01"
                   /\ \E k \in DOMAIN authz : authz[k] = calls[i].args[1]

\* C12 witness: the authorization offered an http-01 challenge only, and
\* renew is about to return its error
C12_Witness ==
    \E r \in RenewCallers :
        /\ Returning(r)
        /\ loc[r].authz = <<Challenge("http-01", "t0")>>
        /\ loc[r].err = "no dns-01 challenge found in challenges provided by the ACME server"

\* C13: a renew whose Provision returned an error is about to return that
\* error and has not called Accept; every Accept comes after a Provision of
\* the same renew that returned no error
C13_AcceptOnlyAfterProvision ==
    \A r \in RenewCallers :
        LET calls == loc[r].calls
        IN  /\ \A i \in CallsOf(calls, "Provision") :
                   ~calls[i].ok =>
                       /\ pc[r] = "deferred"
                       /\ loc[r].err = "could not provision dns-01 TXT challenge"
                       /\ CallsOf(calls, "Accept") = {}
            /\ \A j \in CallsOf(calls, "Accept") :
                   \E i \in CallsOf(calls, "Provision") : i < j /\ calls[i].ok

\* C13 witness: the provisioner failed while the context was live, and renew
\* is about to return the provisioning error
C13_Witness ==
    \E r \in RenewCallers :
        /\ Returning(r)
        /\ ~ctxDone
        /\ \E i \in CallsOf(loc[r].calls, "Provision") : ~loc[r].calls[i].ok

\* C14: a renew about to return after a Provision that failed has called
\* Unprovision for the same (type, fqdn, token)
C14_UnprovisionAfterFailedProvision ==
    \A r \in RenewCallers :
        Returning(r) =>
            \A i \in CallsOf(loc[r].calls, "Provision") :
                ~loc[r].calls[i].ok =>
                    \E j \in CallsOf(loc[r].calls, "Unprovision") :
                        j > i /\ loc[r].calls[j].args = loc[r].calls[i].args

-----------------------------------------------------------------------------
(* Properties of the provisioners *)

\* a gcdnsp Provision whose polling goroutines have run has returned
Verified == ret.op = "Provision" /\ DOMAIN ret.tasks # {}

C17_TransportErrorRetried ==
    /\ [][\A ns \in c.nameservers :
            (pv.pc = "Wait" /\ task[ns].pc = "exchange"
                /\ ~task[ns].transportErr /\ task'[ns].transportErr)
                => task'[ns].pc = "loop"]_vars
    /\ [](\A ns \in c.nameservers :
            /\ (pv.pc = "Wait" /\ task[ns].pc = "err") => CtxtDone
            /\ (pv.pc = "Wait" /\ task[ns].pc = "loop" /\ task[ns].transportErr
                  /\ ~CtxtDone) =>
                   ENABLED (TaskSelect(ns) /\ task'[ns].pc = "exchange")
            /\ (pv.pc = "Wait" /\ task[ns].pc = "exchange" /\ task[ns].transportErr
                  /\ contains(txt[ns], pv.args[3])) =>
                   ENABLED (TaskExchange(ns) /\ task'[ns].pc = "nil"))

\* C17 witness: Provision has returned nil within its deadline although a
\* query to nameserver C had ended with a transport error
C17_Witness ==
    /\ Verified
    /\ ret.err = Nil
    /\ ~ctxDone
    /\ ret.tasks["C"].transportErr
    /\ \A ns \in c.nameservers : ~ret.tasks[ns].late

\* the (name, type, value) triples of the records recs of the backend
Triples(recs) ==
    IF c.pkg = "godop"
    THEN {<<recs[i].Name, recs[i].Type, recs[i].Data>> : i \in DOMAIN recs}
    ELSE UNION {{<<recs[i].Name, recs[i].Type, TrimQuotes(recs[i].Rrdatas[k])>> :
                    k \in DOMAIN recs[i].Rrdatas} : i \in DOMAIN recs}

\* the name under which the backend of the Client holds the records of fqdn
RecordName(fqdn) ==
    IF c.pkg = "godop"
    THEN SubSeq(fqdn, 1, Len(fqdn) - Len(c.domain) - 1)
    ELSE fqdn \o "."

\* C18: after Unprovision(type, name, value) every record of the backend
\* whose name, type or value differs from the arguments is still there
C18_UnprovisionRemovesOnlyMatch ==
    ret.op = "Unprovision" =>
        \A v \in Triples(ret.before) :
            \/ v \in Triples(backend)
            \/ /\ ret.api # <<>>
               /\ v = <<RecordName(ret.args[2]), ret.args[1], ret.args[3]>>

\* C19: an Unprovision that listed the records and found none matching its
\* arguments leaves the backend as it was and returns an error, which a
\* successful removal does not
C19_NotFoundIsDistinct ==
    (/\ ret.op = "Unprovision"
     /\ ret.api # <<>>
     /\ ret.err \notin {"Records", "List"}
     /\ <<RecordName(ret.args[2]), ret.args[1], ret.args[3]>>
            \notin Triples(ret.before)) =>
        /\ backend = ret.before
        /\ ret.err # Nil

\* the non-empty prefixes of the string s
Prefixes(s) == {SubSeq(s, 1, k) : k \in 1..Len(s)}

\* fqdn is a non-empty name, a dot and the domain
InZone(fqdn, domain) == \E q \in Prefixes(fqdn) : q \o "." \o domain = fqdn

\* C20: a Provision of a TXT record is rejected as a domain mismatch exactly
\* when the fqdn is not a non-empty name followed by a dot and the domain of
\* the Client; otherwise the name it computes is the fqdn less that suffix,
\* and the record godop creates bears it
C20_RecordName ==
    (ret.op = "Provision" /\ ret.args[1] = "TXT") =>
        LET fqdn == ret.args[2]
        IN  /\ ret.err \in {"invalid domain", "invalid name"}
                   <=> ~InZone(fqdn, c.domain)
            /\ InZone(fqdn, c.domain) =>
                   ret.n # "" /\ ret.n \o "." \o c.domain = fqdn
            /\ (c.pkg = "godop" /\ ret.err = Nil) =>
                   /\ Len(backend) = Len(ret.before) + 1
                   /\ backend[Len(backend)].Name = ret.n
                   /\ backend[Len(backend)].Data = ret.args[3]
            /\ (c.domain = "test" /\ fqdn = "_acme-challenge.example.test") =>
                   ret.n = "_acme-challenge.example"
            /\ (c.domain = "other.test" /\ fqdn = "_acme-challenge.example.test") =>
                   ret.err = "invalid domain"
            /\ fqdn = c.domain => ret.err = "invalid domain"
            /\ fqdn = "." \o c.domain => ret.err = "invalid name"

\* C20 witness: the godop Client of the zone test has created the record
\* _acme-challenge.example for the fqdn _acme-challenge.example.test
C20_Witness ==
    /\ c.pkg = "godop" /\ c.domain = "test"
    /\ ret.op = "Provision" /\ ret.err = Nil
    /\ ret.args[2] = "_acme-challenge.example.test"
    /\ backend[Len(backend)].Name = "_acme-challenge.example"

\* C21: a Provision or Unprovision called with a record type other than TXT,
\* or with an fqdn that is not a non-empty name, a dot and the domain of the
\* Client, returns an error, makes no call to the backend and leaves its
\* records as they were
C21_RejectedCallTouchesNothing ==
    (ret.op # None
        /\ (ret.args[1] # "TXT" \/ ~InZone(ret.args[2], c.domain))) =>
        /\ ret.err # Nil
        /\ ret.api = <<>>
        /\ backend = ret.before

\* C21 witness: an Unprovision of an A record whose name, type and value are
\* those of a record the backend holds has returned
C21_Witness ==
    /\ ret.op = "Unprovision"
    /\ ret.args[1] = "A"
    /\ <<RecordName(ret.args[2]), "A", ret.args[3]>> \in Triples(ret.before)
    /\ ret.err = "only TXT records are supported"

\* C22: a cachedKey call for an absent file writes a generated key to it, a
\* key that renew holds for a path is the key stored in the file of that
\* path, and no step changes a key file that exists
C22_KeyFileWrittenOnce ==
    [][/\ \A f \in KeyFiles :
             /\ files[f] # NoFile => files'[f] = files[f]
             /\ (files[f] = NoFile /\ files'[f] # NoFile) =>
                   /\ nkeys' = nkeys + 1
                   /\ files'[f] = KeyPEM(<<"generated", nkeys'>>)
       /\ \A r \in RenewCallers :
             /\ loc'[r].key # NilKey =>
                   files'[acmeKeyFile] = KeyPEM(loc'[r].key)
             /\ loc'[r].certKey # NilKey =>
                   files'[Domain \o keySuffix] = KeyPEM(loc'[r].certKey)]_vars

\* C22 witness: a renew has loaded from acme_account.key the key that an
\* earlier renew generated and registered
C22_Witness ==
    \E r \in RenewCallers :
        /\ pc[r] = "Register"
        /\ loc[r].key = <<"generated", 1>>
        /\ loc[r].key \in acme.accounts
        /\ files[acmeKeyFile] = KeyPEM(loc[r].key)

ExternalSteps(calls) ==
    SelectSeq(calls, LAMBDA call : call.op # "Unprovision")

\* the order of the external steps of renew
StepOrder ==
    <<"Register", "Authorize", "Provision", "Accept", "WaitAuthorization",
      "CreateCert">>

\* C27: the external steps of a renew are a prefix of Register, Authorize,
\* Provision, Accept, WaitAuthorization, CreateCert, every step but the last
\* one made has succeeded (Register also with 409 Conflict), and CreateCert
\* is called only with an authorization of status valid
C27_StepsInOrder ==
    \A r \in RenewCallers :
        LET steps == ExternalSteps(loc[r].calls)
        IN  /\ Len(steps) <= Len(StepOrder)
            /\ \A i \in DOMAIN steps :
                  /\ steps[i].op = StepOrder[i]
                  /\ i < Len(steps) =>
                        \/ steps[i].ok
                        \/ /\ steps[i].op = "Register"
                           /\ loc[r].registerErr = AcmeError(StatusConflict)
            /\ CallsOf(loc[r].calls, "CreateCert") # {} =>
                  loc[r].status = "valid"

\* C27 witness: a renew has made all six steps and the authorization it
\* waited for was valid
C27_Witness ==
    \E r \in RenewCallers :
        /\ Len(ExternalSteps(loc[r].calls)) = 6
        /\ loc[r].status = "valid"
        /\ loc[r].calls[Len(loc[r].calls)].op = "Unprovision"

\* C28: when a renew is about to return an error, m.cert and m.nextExpiry
\* are what they were when it took the lock, and a GetCertificate that has
\* returned gave that certificate
C28_FailedRenewChangesNothing ==
    \A r \in RenewCallers :
        (Returning(r) /\ loc[r].err # Nil) =>
            /\ m.cert = loc[r].m0.cert
            /\ m.nextExpiry = loc[r].m0.nextExpiry
            /\ \A g \in Readers : got[g].called => got[g].cert = loc[r].m0.cert

\* C28 witness: a renew whose CreateCert failed is about to return the error
\* while a GetCertificate has returned
C28_Witness ==
    \E r \in RenewCallers :
        /\ Returning(r)
        /\ loc[r].err = "could not create certificate"
        /\ \E g \in Readers : got[g].called

\* a challenge of renew r is outstanding: Provision succeeded and Unprovision
\* has not been called
Outstanding(r) ==
    /\ \E i \in CallsOf(loc[r].calls, "Provision") : loc[r].calls[i].ok
    /\ CallsOf(loc[r].calls, "Unprovision") = {}

\* C29: at most one renew has a challenge outstanding, that renew holds the
\* writer lock, no other renew is about to provision, and a renew gives up
\* the writer lock only with no challenge outstanding
C29_OneChallengeOutstanding ==
    /\ [](\A r \in RenewCallers :
             Outstanding(r) =>
                 /\ rw.writer = r
                 /\ \A q \in RenewCallers \ {r} :
                       ~Outstanding(q) /\ pc[q] # "Provision")
    /\ [][\A r \in RenewCallers :
             (rw.writer = r /\ rw'.writer # r) => ~Outstanding(r)]_vars

\* C29 witness: a renew waits for the authorization with its challenge
\* provisioned while the other goroutine waits in m.rw.Lock()
C29_Witness ==
    \E r, q \in RenewCallers :
        /\ r # q
        /\ pc[r] = "WaitAuthorization"
        /\ Outstanding(r)
        /\ pc[q] = "Lock"

\* C25: when the deferred Unprovision fails, renew still returns the error
\* it was about to return, and the failure is handed to m.Errorf or m.Logf
\* when one of them is set
C25_UnprovisionFailureLogged ==
    [][\A r \in RenewCallers :
          (/\ Len(loc'[r].calls) = Len(loc[r].calls) + 1
           /\ loc'[r].calls[Len(loc'[r].calls)].op = "Unprovision"
           /\ ~loc'[r].calls[Len(loc'[r].calls)].ok) =>
              /\ loc'[r].err = loc[r].err
              /\ (m.Logf # Nil \/ m.Errorf # Nil) => logged'[r] # logged[r]]_vars

\* C26: once ctxt is cancelled the goroutine of Run starts no loadOrRenew:
\* it does not leave its select for another round of the loop
C26_NoRenewalAfterCancel ==
    [][ctxDone => ~(pc["bg"] = "select" /\ pc'["bg"] = "loop")]_vars

\* C24: the error of cachedCert for a certificate file that is absent is not
\* the error it returns for a file that exists and holds no certificate
C24_NotFoundDistinctFromMalformed ==
    LET notFound == cachedCert([f \in FileNames |-> NoFile], Domain).err
    IN  cached.called =>
            /\ cached.store = NoFile => cached.err = notFound
            /\ notFound # Nil
            /\ cached.store.kind \notin {"absent", "cert"} =>
                  cached.err # Nil /\ cached.err # notFound

\* C30: the writer lock is held only by a goroutine inside renew, so it is
\* free when every renew has returned, whatever it returned; the goroutine
\* of Run holds no reader lock while it waits in its select; and a goroutine
\* that waits for the lock in GetCertificate or in renew gets it
C30_LockAlwaysReleased ==
    /\ [](/\ \A r \in RenewCallers : rw.writer = r => InRenew(r)
          /\ (\A r \in RenewCallers : ~InRenew(r)) => rw.writer = None
          /\ pc["bg"] \in {"select", "stopped", "failed"} => "bg" \notin rw.readers)
    /\ \A g \in Readers : (pc[g] = "RLock") ~> (pc[g] = "RLocked")
    /\ \A r \in RenewCallers : (pc[r] \in {"Lock", "LockWait"}) ~> (pc[r] = "validate")

\* C30 witness: a TLS handshake waits for the lock while a renew that failed
\* is about to return and unlock, and the goroutine of Run waits in its select
C30_Witness ==
    \E r \in RenewCallers, g \in Readers :
        /\ Returning(r)
        /\ loc[r].err # Nil
        /\ rw.writer = r
        /\ pc[g] = "RLock"
        /\ pc["bg"] = "select"

\* the positions in zs of the managed zones whose DNS name is a suffix of
\* domain
SuffixZones(domain, zs) ==
    {i \in DOMAIN zs : HasSuffix(domain, zs[i].DnsName)}

\* C31: when the list of the managed zones succeeded, loadZone returns an
\* error exactly when no managed zone has a DNS name that is a suffix of the
\* domain, and otherwise the name of the zone with the longest such DNS name
C31_LongestSuffixZone ==
    (flags.called /\ ~flags.listErr) =>
        LET matching == SuffixZones(flags.Domain, flags.ManagedZones)
        IN  /\ flags.err # Nil <=> matching = {}
            /\ flags.err = Nil =>
                  \E i \in matching :
                      /\ flags.Zone = flags.ManagedZones[i].Name
                      /\ \A j \in matching :
                            Len(flags.ManagedZones[j].DnsName)
                                <= Len(flags.ManagedZones[i].DnsName)

====
